---- MODULE Spec2Model ----
(***************************************************************************)
(* Model of the dashboard analytics pipeline of inmobiliaria-backend:      *)
(* DynamoDBService.get_processed_properties (data_service.py) and the      *)
(* Lambda handler get_dashboard_metrics (handler.py).                      *)
(*                                                                         *)
(* Numbers are exact rationals [n, d] in lowest terms (d > 0); a DataFrame *)
(* cell is a record [t, n, d] whose tag t is "num", "nan" (pandas NaN, also *)
(* what DataFrame(items) puts where an item lacks the key), "inf", "str"   *)
(* (a string that does not parse as a number) or "absent" (the key is      *)
(* missing from the raw DynamoDB item).                                    *)
(***************************************************************************)
EXTENDS Integers, Sequences, FiniteSets, TLC

(* ------------------------------ bounds --------------------------------- *)
MaxPages == 3
MaxDistrictPages == 3
MaxTypePages == 4
MaxFacilityPages == 3

(* --------------------------- program constants ------------------------- *)
PEN_CODE == 6
min_m2 == 15
min_price_per_m2 == 50
max_price_per_m2 == 15000
TopDistricts == 5
TopFacilities == 10

(* ------------------------------ numbers -------------------------------- *)
Abs(x) == IF x < 0 THEN 0 - x ELSE x

RECURSIVE GCD(_, _)
GCD(a, b) == IF b = 0 THEN a ELSE GCD(b, a % b)

Rat(n, d) ==
    LET s == IF d < 0 THEN 0 - 1 ELSE 1
        g == GCD(Abs(n), Abs(d))
    IN  [t |-> "num", n |-> (s * n) \div g, d |-> (s * d) \div g]

Num(n) == [t |-> "num", n |-> n, d |-> 1]
NaN == [t |-> "nan", n |-> 0, d |-> 1]
Inf == [t |-> "inf", n |-> 0, d |-> 1]
Str == [t |-> "str", n |-> 0, d |-> 1]
Absent == [t |-> "absent", n |-> 0, d |-> 1]
KeyError == [t |-> "KeyError", n |-> 0, d |-> 1]
ValueError == [t |-> "ValueError", n |-> 0, d |-> 1]

IsNum(v) == v.t = "num"
IsExc(v) == v.t \in {"KeyError", "ValueError"}

\* comparisons of cells: any comparison with NaN is False
Ge(a, b) == IsNum(a) /\ IsNum(b) /\ a.n * b.d >= b.n * a.d
Le(a, b) == Ge(b, a)
Gt(a, b) == IsNum(a) /\ IsNum(b) /\ a.n * b.d > b.n * a.d

Add(a, b) == Rat(a.n * b.d + b.n * a.d, a.d * b.d)

\* float division as numpy does it: NaN propagates, x/0 is inf, 0/0 is NaN
Div(a, b) ==
    IF ~IsNum(a) \/ ~IsNum(b) THEN NaN
    ELSE IF b.n = 0 THEN (IF a.n = 0 THEN NaN ELSE Inf)
    ELSE Rat(a.n * b.d, a.d * b.n)

(* ------------------------------ sequences ------------------------------ *)
RECURSIVE Flatten(_)
Flatten(ss) == IF ss = <<>> THEN <<>> ELSE Head(ss) \o Flatten(Tail(ss))

Range(s) == {s[i] : i \in DOMAIN s}

RECURSIVE SumCells(_)
SumCells(s) == IF s = <<>> THEN Num(0) ELSE Add(Head(s), SumCells(Tail(s)))

Digits == <<"0", "1", "2", "3", "4", "5", "6", "7", "8", "9">>

\* str(fid) of a non-negative integer code
RECURSIVE str(_)
str(k) == IF k < 10 THEN Digits[k + 1] ELSE str(k \div 10) \o Digits[(k % 10) + 1]

(* --------------------------- metadata catalog -------------------------- *)
\* Contents of diccionario_datos_scraping.txt: the 'options' lists of the
\* sections 'Filter:price', 'Filter:propertyType' and 'Filter:facilities'.
NoStr == "<NaN>"

FacilityNombres ==
    <<"Piscina", "Gimnasio", "Ascensor", "Jardin", "Terraza", "Parrilla",
      "Seguridad", "Cochera", "Deposito", "Lavanderia", "Balcon", "Sauna">>

EmptyCatalog == [price |-> <<>>, propertyType |-> <<>>, facilities |-> <<>>]

FullCatalog ==
    [price |-> << [iso_code |-> "USD", arbitraje |-> Num(1)],
                  [iso_code |-> "PEN", arbitraje |-> Rat(15, 4)] >>,
     propertyType |-> << [property_type_id |-> 1, name |-> "Casa"],
                         [property_type_id |-> 2, name |-> "Departamento"],
                         [property_type_id |-> 3, name |-> "Terreno"] >>,
     facilities |-> [k \in 1..12 |-> [id |-> k, nombre |-> FacilityNombres[k]]]]

Catalogs == {EmptyCatalog, FullCatalog}

DefaultRate == Rat(37, 10)

\* DynamoDBService._get_pen_to_usd_rate: the first 'PEN' option's arbitraje
RECURSIVE RateFrom(_)
RateFrom(price_options) ==
    IF price_options = <<>> THEN DefaultRate
    ELSE IF Head(price_options).iso_code = "PEN"
         THEN (IF Head(price_options).arbitraje.t = "absent" THEN DefaultRate
               ELSE Head(price_options).arbitraje)
    ELSE RateFrom(Tail(price_options))

_get_pen_to_usd_rate(metadata) == RateFrom(metadata.price)

\* a dict comprehension over the options: the last option with a key wins
RECURSIVE TypeLookup(_, _)
TypeLookup(options, pid) ==
    IF options = <<>> THEN NoStr
    ELSE LET o == options[Len(options)]
         IN  IF pid = Num(o.property_type_id) THEN o.name
             ELSE TypeLookup(SubSeq(options, 1, Len(options) - 1), pid)

RECURSIVE FacilityLookup(_, _)
FacilityLookup(options, key) ==
    IF options = <<>> THEN "Desconocido"
    ELSE LET o == options[Len(options)]
         IN  IF str(o.id) = key THEN o.nombre
             ELSE FacilityLookup(SubSeq(options, 1, Len(options) - 1), key)

(* ------------------------------ raw items ------------------------------ *)
Fields == {"id", "price", "currency_id", "m2", "neighborhood",
           "property_type_id", "facilities", "bedrooms", "bathrooms"}

NoList == [kind |-> "absent", ids |-> <<>>]
List(ids) == [kind |-> "list", ids |-> ids]

Item(id, price, cur, m2, nb, ptype, fac, bed, bath) ==
    [id |-> id, price |-> price, currency_id |-> cur, m2 |-> m2,
     neighborhood |-> nb, property_type_id |-> ptype,
     facilities |-> fac, bedrooms |-> bed, bathrooms |-> bath]

\* whether the raw item carries the key f
HasKey(item, f) ==
    CASE f \in {"id", "neighborhood"} -> item[f] # NoStr
      [] f = "facilities" -> item[f].kind # "absent"
      [] OTHER -> item[f].t # "absent"

\* pd.DataFrame(items): the columns are the keys present in some item
Columns(items) == {f \in Fields : \E i \in DOMAIN items : HasKey(items[i], f)}

(* ------------------------------ enrichment ----------------------------- *)
\* float(x) of a cell: a missing value is NaN, a non-numeric string raises
float(v) ==
    CASE v.t = "num" -> v
      [] v.t = "str" -> ValueError
      [] OTHER -> NaN

\* the lambda of the price_usd apply
PriceUsdLambda(row, cols, rate) ==
    IF row.currency_id = Num(PEN_CODE)
    THEN IF "price" \notin cols THEN KeyError
         ELSE IF IsExc(float(row.price)) THEN float(row.price)
         ELSE Div(float(row.price), rate)
    ELSE IF "price" \notin cols THEN Num(0)
         ELSE float(row.price)

\* the lambda of the price_per_m2_usd apply; NaN and non-empty strings are truthy
PricePerM2Lambda(row, price_usd, cols) ==
    IF "m2" \notin cols \/ row.m2 = Num(0) THEN Num(0)
    ELSE IF IsExc(float(row.m2)) THEN float(row.m2)
    ELSE IF Gt(float(row.m2), Num(0)) THEN Div(price_usd, float(row.m2))
    ELSE Num(0)

\* DynamoDBService._map_property_types, for one row
_map_property_types(metadata, row) ==
    LET name == TypeLookup(metadata.propertyType, row.property_type_id)
    IN  IF name = NoStr THEN "No especificado" ELSE name

\* DynamoDBService._map_facilities
_map_facilities(metadata, facility_ids) ==
    IF facility_ids.kind # "list" THEN <<>>
    ELSE [k \in DOMAIN facility_ids.ids |->
            FacilityLookup(metadata.facilities, str(facility_ids.ids[k]))]

EnrichRow(metadata, rate, cols, item, i) ==
    LET pu == PriceUsdLambda(item, cols, rate)
    IN  [idx |-> i, id |-> item.id, price |-> item.price,
         currency_id |-> item.currency_id, m2 |-> item.m2,
         neighborhood |-> item.neighborhood,
         property_type_id |-> item.property_type_id,
         facilities |-> item.facilities,
         bedrooms |-> item.bedrooms, bathrooms |-> item.bathrooms,
         price_usd |-> pu,
         price_per_m2_usd |-> IF IsExc(pu) THEN pu
                              ELSE PricePerM2Lambda(item, pu, cols),
         property_type_name |-> _map_property_types(metadata, item),
         facilities_names |-> _map_facilities(metadata, item.facilities)]

\* DynamoDBService.get_processed_properties on the scanned items: the
\* enriched DataFrame, or the exception the first failing step raises
get_processed_properties(metadata, rate, items) ==
    LET cols == Columns(items)
        df == [i \in DOMAIN items |-> EnrichRow(metadata, rate, cols, items[i], i)]
    IN  IF items = <<>> THEN [exc |-> "", df |-> <<>>]
        ELSE IF \E i \in DOMAIN df : IsExc(df[i].price_usd)
        THEN [exc |-> (CHOOSE e \in {"KeyError", "ValueError"} :
                          \E i \in DOMAIN df : df[i].price_usd.t = e
                              /\ \A j \in 1..(i - 1) : ~IsExc(df[j].price_usd)),
              df |-> <<>>]
        ELSE IF \E i \in DOMAIN df : IsExc(df[i].price_per_m2_usd)
        THEN [exc |-> "ValueError", df |-> <<>>]
        ELSE IF "property_type_id" \notin cols \/ "facilities" \notin cols
        THEN [exc |-> "KeyError", df |-> <<>>]
        ELSE [exc |-> "", df |-> df]

(* ------------------------ handler: numeric steps ----------------------- *)
\* pd.to_numeric(..., errors='coerce') of one cell
to_numeric(v) == IF v.t = "num" THEN v ELSE NaN

\* handler.py 47-49: coerce m2 and price_usd, drop the rows where either is NaN
CoerceAndDropna(df) ==
    SelectSeq([i \in DOMAIN df |->
                  [df[i] EXCEPT !.m2 = to_numeric(@), !.price_usd = to_numeric(@)]],
              LAMBDA r : IsNum(r.m2) /\ IsNum(r.price_usd))

\* handler.py 54-57: m2 = 0 becomes NaN, the quotient's inf and NaN become 0
RecalcPricePerM2(r) ==
    LET m2_for_calc == IF r.m2 = Num(0) THEN NaN ELSE r.m2
        q == Div(r.price_usd, m2_for_calc)
        no_inf == IF q.t = "inf" THEN NaN ELSE q
    IN  IF no_inf.t = "nan" THEN Num(0) ELSE no_inf

Recalculate(df) ==
    [i \in DOMAIN df |-> [df[i] EXCEPT !.price_per_m2_usd = RecalcPricePerM2(df[i])]]

\* the mask with the lower price bound exclusive
OutlierMaskExclusive(r) ==
    /\ Ge(r.m2, Num(min_m2))
    /\ Gt(r.price_per_m2_usd, Num(min_price_per_m2))
    /\ Le(r.price_per_m2_usd, Num(max_price_per_m2))

\* handler.py 66-70: the outlier mask of one row
OutlierMask(r) ==
    /\ Ge(r.m2, Num(min_m2))
    /\ Ge(r.price_per_m2_usd, Num(min_price_per_m2))
    /\ Le(r.price_per_m2_usd, Num(max_price_per_m2))

OutlierFilter(df) == SelectSeq(df, OutlierMask)

\* Series.mean(): NaN values are skipped, the mean of nothing is NaN
Mean(cells) ==
    LET vals == SelectSeq(cells, IsNum)
    IN  IF vals = <<>> THEN NaN ELSE Div(SumCells(vals), Num(Len(vals)))

\* the NaN guard left out
NaNKept(v) == v

\* if pd.isna(x): x = 0   and   DataFrame.fillna(0)
NaNToZero(v) == IF v.t = "nan" THEN Num(0) ELSE v

Column(df, f) == [i \in DOMAIN df |-> df[i][f]]

\* average_m2 taken from the price_per_m2_usd column
GeneralMetricsWrongColumn(filtered) ==
    [total_properties |-> Len(filtered),
     average_price_usd |-> NaNToZero(Mean(Column(filtered, "price_usd"))),
     average_m2 |-> NaNToZero(Mean(Column(filtered, "price_per_m2_usd"))),
     average_price_per_m2_usd |->
         NaNToZero(Mean(Column(filtered, "price_per_m2_usd")))]

\* handler.py 80-87
GeneralMetrics(filtered) ==
    [total_properties |-> Len(filtered),
     average_price_usd |-> NaNToZero(Mean(Column(filtered, "price_usd"))),
     average_m2 |-> NaNToZero(Mean(Column(filtered, "m2"))),
     average_price_per_m2_usd |->
         NaNToZero(Mean(Column(filtered, "price_per_m2_usd")))]

(* ------------------------- handler: districts -------------------------- *)
\* groupby('neighborhood')['price_per_m2_usd'].mean(): one group per
\* non-null key (groupby drops the rows whose key is NaN)
DistrictGroups(filtered) ==
    { [neighborhood |-> nb,
       price_per_m2_usd |->
           Mean(Column(SelectSeq(filtered, LAMBDA r : r.neighborhood = nb),
                       "price_per_m2_usd"))] :
      nb \in {filtered[i].neighborhood : i \in DOMAIN filtered} \ {NoStr} }

\* sort_values(ascending=False) with the default kind 'quicksort', which is
\* not a stable sort: every arrangement in descending order is a possible
\* outcome, groups of equal mean in any relative order
RECURSIVE SortValuesDesc(_)
SortValuesDesc(S) ==
    IF S = {} THEN {<<>>}
    ELSE UNION { { <<x>> \o t : t \in SortValuesDesc(S \ {x}) } :
                 x \in {y \in S : \A z \in S :
                           Ge(y.price_per_m2_usd, z.price_per_m2_usd)} }

RECURSIVE SortValuesAsc(_)
SortValuesAsc(S) ==
    IF S = {} THEN {<<>>}
    ELSE UNION { { <<x>> \o t : t \in SortValuesAsc(S \ {x}) } :
                 x \in {y \in S : \A z \in S :
                           Le(y.price_per_m2_usd, z.price_per_m2_usd)} }

head(s, k) == SubSeq(s, 1, IF Len(s) < k THEN Len(s) ELSE k)

\* the last rows taken from the front of the ranking
tailFromFront(s, k) == head(s, k)

tail(s, k) == SubSeq(s, (IF Len(s) < k THEN 0 ELSE Len(s) - k) + 1, Len(s))

(* ----------------------- handler: property types ----------------------- *)
\* the display names in lexicographic order: groupby sorts its keys
TypeNameOrder == <<"Casa", "Departamento", "No especificado", "Terreno">>

\* one row of groupby('property_type_name').agg(...): 'count' counts the
\* non-null values of the column 'id'; fillna(0) follows
PropTypeRow(filtered, name) ==
    LET g == SelectSeq(filtered, LAMBDA r : r.property_type_name = name)
    IN  [property_type_name |-> name,
         count |-> Len(SelectSeq(g, LAMBDA r : r.id # NoStr)),
         avg_price_usd |-> NaNToZero(Mean(Column(g, "price_usd"))),
         avg_m2 |-> NaNToZero(Mean(Column(g, "m2"))),
         avg_price_per_m2_usd |-> NaNToZero(Mean(Column(g, "price_per_m2_usd")))]

\* the aggregated frame after reset_index(), in the grouping's iteration order
PropTypeAnalysisDf(filtered) ==
    LET present == SelectSeq(TypeNameOrder,
                       LAMBDA n : \E i \in DOMAIN filtered :
                                      filtered[i].property_type_name = n)
    IN  [k \in DOMAIN present |-> PropTypeRow(filtered, present[k])]

\* the sort by count in ascending order
RECURSIVE SortByCountAsc(_)
SortByCountAsc(S) ==
    IF S = {} THEN {<<>>}
    ELSE UNION { { <<x>> \o t : t \in SortByCountAsc(S \ {x}) } :
                 x \in {y \in S : \A z \in S : y.count <= z.count} }

\* sort_values(by='count', ascending=False), default kind 'quicksort'
RECURSIVE SortByCountDesc(_)
SortByCountDesc(S) ==
    IF S = {} THEN {<<>>}
    ELSE UNION { { <<x>> \o t : t \in SortByCountDesc(S \ {x}) } :
                 x \in {y \in S : \A z \in S : y.count >= z.count} }

(* ------------------------- handler: facilities ------------------------- *)
\* Counter(all_facilities): the distinct names in first-occurrence order
RECURSIVE Distinct(_)
Distinct(s) ==
    IF s = <<>> THEN <<>>
    ELSE LET d == Distinct(SubSeq(s, 1, Len(s) - 1))
             x == s[Len(s)]
         IN  IF x \in Range(d) THEN d ELSE Append(d, x)

Occurrences(s, x) == Cardinality({i \in DOMAIN s : s[i] = x})

Counter(s) ==
    LET d == Distinct(s)
    IN  [k \in DOMAIN d |-> [name |-> d[k], count |-> Occurrences(s, d[k])]]

\* insertion before the entries of equal count (ties in reverse order)
RECURSIVE InsertBeforeTies(_, _)
InsertBeforeTies(sorted, e) ==
    IF sorted = <<>> THEN <<e>>
    ELSE IF Head(sorted).count > e.count
         THEN <<Head(sorted)>> \o InsertBeforeTies(Tail(sorted), e)
    ELSE <<e>> \o sorted

\* insertion of e into a sequence sorted by count, after every entry whose
\* count is not smaller (a stable descending sort)
RECURSIVE InsertStable(_, _)
InsertStable(sorted, e) ==
    IF sorted = <<>> THEN <<e>>
    ELSE IF Head(sorted).count >= e.count
         THEN <<Head(sorted)>> \o InsertStable(Tail(sorted), e)
    ELSE <<e>> \o sorted

RECURSIVE SortedStable(_)
SortedStable(s) ==
    IF s = <<>> THEN <<>>
    ELSE InsertStable(SortedStable(SubSeq(s, 1, Len(s) - 1)), s[Len(s)])

\* Counter.most_common(n) = heapq.nlargest(n, items, key=count), equivalent
\* to sorted(items, key=count, reverse=True)[:n]
most_common(counter, n) == head(SortedStable(counter), n)

AllFacilities(filtered) == Flatten(Column(filtered, "facilities_names"))

FacilitiesAnalysis(filtered) ==
    most_common(Counter(AllFacilities(filtered)), TopFacilities)

(* ------------------- handler: price by bedrooms/bathrooms -------------- *)
RECURSIVE SortByKey(_)
SortByKey(S) ==
    IF S = {} THEN <<>>
    ELSE LET x == CHOOSE y \in S : \A z \in S : Le(y.key, z.key)
         IN  <<x>> \o SortByKey(S \ {x})

\* filtered[filtered[f] > 0].groupby(f)['price_usd'].mean().reset_index()
PriceByFeature(filtered, f) ==
    LET sel == SelectSeq(filtered, LAMBDA r : Gt(r[f], Num(0)))
    IN  SortByKey({ [key |-> k,
                     price_usd |-> Mean(Column(SelectSeq(sel, LAMBDA r : r[f] = k),
                                               "price_usd"))] :
                    k \in {sel[i][f] : i \in DOMAIN sel} })

(* -------------------------------- state -------------------------------- *)
VARIABLES
    filters_metadata,        \* DynamoDBService._filters_metadata
    pen_to_usd_rate,         \* DynamoDBService.pen_to_usd_rate
    table,                   \* the 'properties' table: the pages a scan returns
    pc,                      \* "idle" before the invocation, "done" after it
    enriched,                \* the frame get_processed_properties returned
    properties_df,           \* properties_df after the recalculation (step 2)
    properties_df_filtered,  \* properties_df_filtered (step 3)
    district_analysis,       \* district_analysis
    response                 \* the JSON body the handler returned

vars == <<filters_metadata, pen_to_usd_rate, table, pc, enriched, properties_df,
          properties_df_filtered, district_analysis, response>>

NoMetrics ==
    [total_properties |-> 0, average_price_usd |-> Num(0),
     average_m2 |-> Num(0), average_price_per_m2_usd |-> Num(0)]

NoResponse ==
    [statusCode |-> 0, keys |-> {}, error |-> "",
     general_metrics |-> NoMetrics,
     top_expensive_by_m2 |-> <<>>, top_affordable_by_m2 |-> <<>>,
     property_type_analysis |-> <<>>, facilities_analysis |-> <<>>,
     by_bedrooms |-> <<>>, by_bathrooms |-> <<>>]

ReportKeys == {"general_metrics", "districts", "property_type_analysis",
               "facilities_analysis", "price_feature_correlation"}

\* handler.py 37-42
MessageResponse == [NoResponse EXCEPT !.statusCode = 200, !.keys = {"message"}]

\* handler.py 143-152
ErrorResponse(e) ==
    [NoResponse EXCEPT !.statusCode = 500, !.keys = {"error"}, !.error = e]

\* handler.py 114-141
ReportResponse(filtered, da, affordable, prop_type_analysis) ==
    [NoResponse EXCEPT
        !.statusCode = 200, !.keys = ReportKeys,
        !.general_metrics = GeneralMetrics(filtered),
        !.top_expensive_by_m2 = head(da, TopDistricts),
        !.top_affordable_by_m2 = affordable,
        !.property_type_analysis = prop_type_analysis,
        !.facilities_analysis = FacilitiesAnalysis(filtered),
        !.by_bedrooms = PriceByFeature(filtered, "bedrooms"),
        !.by_bathrooms = PriceByFeature(filtered, "bathrooms")]

\* DynamoDBService.__init__ on each catalog file, and an empty table
Init ==
    /\ filters_metadata \in Catalogs
    /\ pen_to_usd_rate = _get_pen_to_usd_rate(filters_metadata)
    /\ table = <<>>
    /\ pc = "idle"
    /\ enriched = <<>>
    /\ properties_df = <<>>
    /\ properties_df_filtered = <<>>
    /\ district_analysis = <<>>
    /\ response = NoResponse

\* the table scan yields one more page of items (data_service.py 65-71)
ScanPage(page, limit) ==
    /\ pc = "idle"
    /\ Len(table) < limit
    /\ table' = Append(table, page)
    /\ UNCHANGED <<filters_metadata, pen_to_usd_rate, pc, enriched, properties_df,
                   properties_df_filtered, district_analysis, response>>

\* the first missing column the handler subscripts, "" if none is missing
HandlerKeyError(cols, after_filter) ==
    IF ~after_filter
    THEN (IF "m2" \notin cols THEN "KeyError" ELSE "")
    ELSE IF {"neighborhood", "id", "bedrooms", "bathrooms"} \subseteq cols THEN ""
    ELSE "KeyError"

\* get_dashboard_metrics(event, context), the whole invocation
get_dashboard_metrics ==
    /\ pc = "idle"
    /\ pc' = "done"
    /\ LET items == Flatten(table)
           cols == Columns(items)
           res == get_processed_properties(filters_metadata, pen_to_usd_rate, items)
           df == Recalculate(CoerceAndDropna(res.df))
           filtered == OutlierFilter(df)
       IN  IF res.exc # ""
           THEN /\ response' = ErrorResponse(res.exc)
                /\ UNCHANGED <<enriched, properties_df, properties_df_filtered,
                               district_analysis>>
           ELSE IF res.df = <<>>
           THEN /\ response' = MessageResponse
                /\ UNCHANGED <<enriched, properties_df, properties_df_filtered,
                               district_analysis>>
           ELSE IF HandlerKeyError(cols, FALSE) # ""
           THEN /\ response' = ErrorResponse(HandlerKeyError(cols, FALSE))
                /\ enriched' = res.df
                /\ UNCHANGED <<properties_df, properties_df_filtered,
                               district_analysis>>
           ELSE IF HandlerKeyError(cols, TRUE) # ""
           THEN /\ response' = ErrorResponse(HandlerKeyError(cols, TRUE))
                /\ enriched' = res.df
                /\ properties_df' = df
                /\ properties_df_filtered' = filtered
                /\ UNCHANGED district_analysis
           ELSE /\ enriched' = res.df
                /\ properties_df' = df
                /\ properties_df_filtered' = filtered
                /\ district_analysis' \in SortValuesDesc(DistrictGroups(filtered))
                /\ \E affordable \in SortValuesAsc(
                                        Range(tail(district_analysis', TopDistricts))),
                      pta \in SortByCountDesc(Range(PropTypeAnalysisDf(filtered))) :
                      response' = ReportResponse(filtered, district_analysis',
                                                 affordable, pta)
    /\ UNCHANGED <<filters_metadata, pen_to_usd_rate, table>>

(* ------------------------------ the inputs ----------------------------- *)
\* an item with the given price, currency_id and m2, well-formed otherwise
N(price, currency_id, m2) ==
    Item("p", price, currency_id, m2, "Lima", Num(1), List(<<1>>), Num(2), Num(1))

NumericItems ==
    { N(Num(750), Num(1), Num(15)),        \* 50 per m2
      N(Num(225000), Num(1), Num(15)),     \* 15000 per m2
      N(Num(225015), Num(1), Num(15)),     \* 15001 per m2
      N(Num(735), Num(1), Num(15)),        \* 49 per m2
      N(Num(100000), Num(1), Num(50)),
      N(Num(370), Num(PEN_CODE), Num(20)),
      N(Num(2775), Num(PEN_CODE), Num(15)),
      N(Num(1000), Num(1), Num(14)),
      N(Num(1000), Num(1), Num(0)),
      N(Num(1000), Num(1), Num(0 - 20)),
      N(Num(0 - 1000), Num(1), Num(0 - 20)),
      N(Absent, Num(1), Num(20)),
      N(Absent, Num(PEN_CODE), Num(20)),
      N(Str, Num(1), Num(20)),
      N(Num(1000), Num(1), Str),
      N(Num(1000), Absent, Absent) }

NumericPages == { <<it>> : it \in NumericItems }

\* an item of a neighborhood with the given price per m2 (m2 = 20)
D(neighborhood, per_m2) ==
    Item("p", Num(per_m2 * 20), Num(1), Num(20), neighborhood, Num(1),
         List(<<>>), Num(2), Num(1))

DistrictPages ==
    { << D("Ate", 100), D("Barranco", 200), D("Comas", 300) >>,
      << D("Lince", 400), D("Miraflores", 500), D("Surco", 600) >>,
      << D("Ate", 300), D("Rimac", 200) >>,
      << D(NoStr, 700), D("Barranco", 100) >>,
      << D("San Isidro", 20000), D("Pueblo Libre", 200) >> }

\* an item with the given id and property type code
T(id, property_type_id) ==
    Item(id, Num(20000), Num(1), Num(20), "Lima", property_type_id,
         List(<<>>), Num(2), Num(1))

TypePages ==
    { <<T("a", Num(1))>>, <<T("b", Num(2))>>, <<T("c", Num(3))>>,
      <<T("d", Num(9))>>, <<T(NoStr, Num(2))>>, <<T("e", Absent)>>,
      <<Item("f", Num(20), Num(1), Num(20), "Lima", Num(1), List(<<>>),
             Num(2), Num(1))>> }

\* an item with the given facility codes
F(facilities) ==
    Item("p", Num(20000), Num(1), Num(20), "Lima", Num(1), facilities,
         Num(2), Num(1))

FacilityPages ==
    { <<F(List(<<1, 2, 3, 4, 5, 6>>))>>, <<F(List(<<7, 8, 9, 10, 11, 12>>))>>,
      <<F(List(<<12, 1, 1>>))>>, <<F(List(<<99, 98>>))>>, <<F(NoList)>>,
      <<F(List(<<3, 2>>))>>,
      <<Item("p", Num(20), Num(1), Num(20), "Lima", Num(1), List(<<5, 5, 5>>),
             Num(2), Num(1))>> }

(* --------------------------- specifications ---------------------------- *)
Next ==
    \/ \E page \in NumericPages : ScanPage(page, MaxPages)
    \/ get_dashboard_metrics

Spec == Init /\ [][Next]_vars

NextDistricts ==
    \/ \E page \in DistrictPages : ScanPage(page, MaxDistrictPages)
    \/ get_dashboard_metrics

SpecDistricts == Init /\ [][NextDistricts]_vars

NextTypes ==
    \/ \E page \in TypePages : ScanPage(page, MaxTypePages)
    \/ get_dashboard_metrics

SpecTypes == Init /\ [][NextTypes]_vars

NextFacilities ==
    \/ \E page \in FacilityPages : ScanPage(page, MaxFacilityPages)
    \/ get_dashboard_metrics

SpecFacilities == Init /\ [][NextFacilities]_vars

(* ------------------------------- claims -------------------------------- *)
Items == Flatten(table)
Reported == pc = "done" /\ response.keys = ReportKeys
FilteredIdx == {properties_df_filtered[i].idx : i \in DOMAIN properties_df_filtered}

\* the three plausibility bounds on a pair of cells, inclusive at both ends
WithinBounds(m2, per_m2) ==
    /\ m2.t = "num" /\ per_m2.t = "num"
    /\ m2.n >= 15 * m2.d
    /\ per_m2.n >= 50 * per_m2.d
    /\ per_m2.n <= 15000 * per_m2.d

\* avg is the arithmetic mean of the cells, 0 when there are none
IsMeanOf(avg, cells) ==
    IF cells = <<>> THEN avg = Num(0)
    ELSE /\ avg.t = "num"
         /\ avg.n * SumCells(cells).d * Len(cells) = SumCells(cells).n * avg.d

\* C1: the outlier filter keeps exactly the records with m2 >= 15 and
\* 50 <= price_per_m2_usd <= 15000: every kept record satisfies the three
\* bounds, and every record satisfying them (as recomputed by the handler or
\* as enriched) is kept, once, in its original order.
C1_FilterExact ==
    pc = "done" =>
        /\ \A i \in DOMAIN properties_df_filtered :
               WithinBounds(properties_df_filtered[i].m2,
                            properties_df_filtered[i].price_per_m2_usd)
        /\ FilteredIdx =
               {properties_df[j].idx : j \in
                   {k \in DOMAIN properties_df :
                       WithinBounds(properties_df[k].m2,
                                    properties_df[k].price_per_m2_usd)}}
        /\ (properties_df # <<>> =>
               FilteredIdx =
                   {enriched[j].idx : j \in
                       {k \in DOMAIN enriched :
                           WithinBounds(enriched[k].m2,
                                        enriched[k].price_per_m2_usd)}})
        /\ \A i, j \in DOMAIN properties_df_filtered :
               i < j => properties_df_filtered[i].idx < properties_df_filtered[j].idx

C1_Witness ==
    /\ pc = "done"
    /\ \E i \in DOMAIN properties_df_filtered :
           /\ properties_df_filtered[i].m2 = Num(15)
           /\ properties_df_filtered[i].price_per_m2_usd = Num(50)
    /\ \E i \in DOMAIN properties_df_filtered :
           properties_df_filtered[i].price_per_m2_usd = Num(15000)
    /\ \E j \in DOMAIN properties_df : properties_df[j].idx \notin FilteredIdx

\* the price_usd the enrichment is said to give a raw item
ExpectedPriceUsd(item) ==
    IF item.price.t = "absent" THEN Num(0)
    ELSE IF item.currency_id = Num(6) THEN Div(item.price, pen_to_usd_rate)
    ELSE item.price

\* C2: enrichment sets price_usd = price / pen_to_usd_rate when currency_id
\* is 6 and price_usd = price otherwise, and a record whose price is absent
\* gets price_usd = 0 in both cases (stated for tables whose prices are
\* numbers or absent and whose m2 values are numbers).
C2_PriceUsd ==
    (/\ pc = "done"
     /\ Items # <<>>
     /\ \A i \in DOMAIN Items : /\ Items[i].price.t \in {"num", "absent"}
                                /\ Items[i].m2.t = "num")
        => /\ Len(enriched) = Len(Items)
           /\ \A i \in DOMAIN enriched :
                  enriched[i].price_usd = ExpectedPriceUsd(Items[i])

\* C3: after enrichment and the handler's recomputation every record's
\* price_per_m2_usd is a finite number >= 0, and price_usd >= 0 whenever the
\* input price is non-negative.
C3_NonNegative ==
    pc = "done" =>
        \A i \in DOMAIN properties_df :
            /\ properties_df[i].price_per_m2_usd.t = "num"
            /\ properties_df[i].price_per_m2_usd.n >= 0
            /\ (properties_df[i].price.t = "num" /\ properties_df[i].price.n >= 0
                    => properties_df[i].price_usd.n >= 0)

C5_AnomalyIsolated ==
    (/\ pc = "done"
     /\ \A i \in DOMAIN Items : Items[i].price.t \in {"num", "str"}
     /\ \E i \in DOMAIN Items :
            Items[i].price.t = "str" \/ Items[i].m2.t \in {"str", "absent"})
        => /\ response.keys = ReportKeys
           /\ \A i \in DOMAIN Items :
                  (Items[i].price.t = "str" \/ Items[i].m2.t \in {"str", "absent"})
                      => i \notin FilteredIdx

\* C6: general_metrics has total_properties = number of filtered records,
\* average_price_usd = mean price_usd of all of them, average_m2 = mean m2 of
\* those with m2 > 0, average_price_per_m2_usd = mean of those with
\* price_per_m2_usd > 0, a mean over no record being 0.
C6_GeneralMetrics ==
    Reported =>
        LET f == properties_df_filtered
            g == response.general_metrics
        IN  /\ g.total_properties = Len(f)
            /\ g.total_properties =
                   Cardinality({i \in DOMAIN properties_df :
                       WithinBounds(properties_df[i].m2,
                                    properties_df[i].price_per_m2_usd)})
            /\ IsMeanOf(g.average_price_usd, [i \in DOMAIN f |-> f[i].price_usd])
            /\ IsMeanOf(g.average_m2,
                   SelectSeq([i \in DOMAIN f |-> f[i].m2], LAMBDA v : v.n > 0))
            /\ IsMeanOf(g.average_price_per_m2_usd,
                   SelectSeq([i \in DOMAIN f |-> f[i].price_per_m2_usd],
                             LAMBDA v : v.n > 0))

C6_Witness ==
    /\ Reported
    /\ Len(properties_df_filtered) >= 2
    /\ \A i \in DOMAIN properties_df_filtered :
           /\ properties_df_filtered[i].price_usd
                  # response.general_metrics.average_price_usd
           /\ properties_df_filtered[i].m2 # response.general_metrics.average_m2

Neighborhoods ==
    {properties_df_filtered[i].neighborhood : i \in DOMAIN properties_df_filtered}
        \ {NoStr}

PerM2Of(nb) ==
    LET g == SelectSeq(properties_df_filtered, LAMBDA r : r.neighborhood = nb)
    IN  [i \in DOMAIN g |-> g[i].price_per_m2_usd]

Min(a, b) == IF a < b THEN a ELSE b

NoRepeat(list) ==
    \A i, j \in DOMAIN list : list[i].neighborhood = list[j].neighborhood => i = j

\* C7: the records of one neighborhood form exactly one group whose value is
\* the arithmetic mean of their price_per_m2_usd; with G groups ranked by
\* descending mean, top_expensive_by_m2 is the first min(5, G) of the ranking
\* and top_affordable_by_m2 its last min(5, G) in ascending order of mean; no
\* list is padded and no neighborhood appears twice within a list.
C7_Districts ==
    Reported =>
        LET G == Cardinality(Neighborhoods)
            k == Min(5, G)
            da == district_analysis
            top == response.top_expensive_by_m2
            aff == response.top_affordable_by_m2
        IN  /\ Len(da) = G
            /\ {da[i].neighborhood : i \in DOMAIN da} = Neighborhoods
            /\ \A i \in DOMAIN da :
                   IsMeanOf(da[i].price_per_m2_usd, PerM2Of(da[i].neighborhood))
            /\ \A i \in 1..(G - 1) :
                   da[i].price_per_m2_usd.n * da[i + 1].price_per_m2_usd.d
                       >= da[i + 1].price_per_m2_usd.n * da[i].price_per_m2_usd.d
            /\ top = [i \in 1..k |-> da[i]]
            /\ Len(aff) = k
            /\ Range(aff) = {da[i] : i \in (G - k + 1)..G}
            /\ \A i \in 1..(k - 1) :
                   aff[i].price_per_m2_usd.n * aff[i + 1].price_per_m2_usd.d
                       <= aff[i + 1].price_per_m2_usd.n * aff[i].price_per_m2_usd.d
            /\ NoRepeat(top) /\ NoRepeat(aff)

C7_Witness ==
    /\ Reported
    /\ Cardinality(Neighborhoods) >= 6
    /\ Len(response.top_expensive_by_m2) = 5
    /\ response.top_expensive_by_m2 # response.top_affordable_by_m2
    /\ \E nb \in Neighborhoods :
           /\ Len(PerM2Of(nb)) = 2
           /\ PerM2Of(nb)[1] # PerM2Of(nb)[2]

TypeNames ==
    {properties_df_filtered[i].property_type_name :
        i \in DOMAIN properties_df_filtered}

\* position of a display name in the grouping's iteration order
IterationRank(name) == CHOOSE k \in DOMAIN TypeNameOrder : TypeNameOrder[k] = name

CountDescending(pta) == \A i \in 1..(Len(pta) - 1) : pta[i].count >= pta[i + 1].count

\* C8 as stated: property_type_analysis is in descending order of count, and
\* two groups of equal count keep the relative order of the grouping's
\* iteration (the sort is stable).
C8_StableByCount ==
    Reported =>
        LET pta == response.property_type_analysis
        IN  /\ CountDescending(pta)
            /\ \A i, j \in DOMAIN pta :
                   (i < j /\ pta[i].count = pta[j].count)
                       => IterationRank(pta[i].property_type_name)
                              < IterationRank(pta[j].property_type_name)

\* C8 amended: property_type_analysis lists every property-type group once,
\* in descending order of count; the relative order of groups of equal count
\* is not determined.
C8_ByCount ==
    Reported =>
        LET pta == response.property_type_analysis
        IN  /\ CountDescending(pta)
            /\ Len(pta) = Cardinality(TypeNames)
            /\ {pta[i].property_type_name : i \in DOMAIN pta} = TypeNames

C8_Witness ==
    /\ Reported
    /\ LET pta == response.property_type_analysis
       IN  /\ Len(pta) = 3
           /\ pta[1].count > pta[2].count
           /\ pta[2].count = pta[3].count
           /\ IterationRank(pta[2].property_type_name)
                  > IterationRank(pta[3].property_type_name)

\* C10: every entry of property_type_analysis has count >= 1 equal to the
\* number of filtered records carrying its property_type_name (records
\* without an id included), each filtered record belongs to exactly one
\* entry, and the counts sum to general_metrics.total_properties.
C10_CountsPartition ==
    Reported =>
        LET pta == response.property_type_analysis
            f == properties_df_filtered
        IN  /\ \A k \in DOMAIN pta :
                   /\ pta[k].count >= 1
                   /\ pta[k].count =
                          Cardinality({i \in DOMAIN f :
                              f[i].property_type_name = pta[k].property_type_name})
            /\ \A i \in DOMAIN f :
                   Cardinality({k \in DOMAIN pta :
                       pta[k].property_type_name = f[i].property_type_name}) = 1
            /\ SumCells([k \in DOMAIN pta |-> Num(pta[k].count)])
                   = Num(response.general_metrics.total_properties)

FlatNames ==
    Flatten([i \in DOMAIN properties_df_filtered |->
                properties_df_filtered[i].facilities_names])

FirstAt(flat, x) == CHOOSE i \in DOMAIN flat :
                        flat[i] = x /\ \A j \in 1..(i - 1) : flat[j] # x

TimesIn(flat, x) == Cardinality({i \in DOMAIN flat : flat[i] = x})

\* r ranks the names of flat: most frequent first, equal counts by first
\* occurrence, cut after ten
IsRankingOf(r, flat) ==
    /\ Len(r) = Min(10, Cardinality(Range(flat)))
    /\ \A k \in DOMAIN r :
           r[k].name \in Range(flat) /\ r[k].count = TimesIn(flat, r[k].name)
    /\ \A i, j \in DOMAIN r : r[i].name = r[j].name => i = j
    /\ \A k \in 1..(Len(r) - 1) :
           \/ r[k].count > r[k + 1].count
           \/ /\ r[k].count = r[k + 1].count
              /\ FirstAt(flat, r[k].name) < FirstAt(flat, r[k + 1].name)
    /\ \A x \in Range(flat) \ {r[k].name : k \in DOMAIN r} :
           \/ TimesIn(flat, x) < r[Len(r)].count
           \/ /\ TimesIn(flat, x) = r[Len(r)].count
              /\ FirstAt(flat, x) > FirstAt(flat, r[Len(r)].name)

Reorderings(n) == {p \in [1..n -> 1..n] : \A i, j \in 1..n : p[i] = p[j] => i = j}

\* C9: facilities_analysis is the min(10, distinct names) most frequent
\* facility names of the flattened facilities_names of the filtered records,
\* each with its exact number of occurrences, in descending order of count
\* and by first occurrence among equal counts; reordering the records leaves
\* the sequence of counts and every name above the cut-off count unchanged.
C9_Facilities ==
    Reported =>
        LET r == response.facilities_analysis
            f == properties_df_filtered
        IN  /\ IsRankingOf(r, FlatNames)
            /\ \A p \in Reorderings(Len(f)) :
                   LET r2 == FacilitiesAnalysis([i \in DOMAIN f |-> f[p[i]]])
                   IN  /\ [k \in DOMAIN r2 |-> r2[k].count]
                              = [k \in DOMAIN r |-> r[k].count]
                       /\ \A k \in DOMAIN r :
                              r[k].count > r[Len(r)].count
                                  => \E j \in DOMAIN r2 : r2[j] = r[k]

C9_Witness ==
    /\ Reported
    /\ Cardinality(Range(FlatNames)) > 10
    /\ Len(response.facilities_analysis) = 10
    /\ response.facilities_analysis[1].count = 3
    /\ response.facilities_analysis[2].count = 2
    /\ response.facilities_analysis[2].name = "Sauna"
    /\ response.facilities_analysis[3].count = 1

====
